---------------------------- MODULE Spec2Model ----------------------------
(***************************************************************************)
(* Model of the file validation engine of dlflow                           *)
(* (src/api/services/file_validator.py): FileValidator.validate_file and   *)
(* its four stages, run on a file described by what the stages observe of  *)
(* it (existence, size, extension, sniffed MIME type, detected encoding,   *)
(* parse outcome, header, sampled rows); and of the time-column detection  *)
(* of the data processor (src/backend/app/services/data_processor.py):     *)
(* DataProcessor.detect_time_column, _validate_time_format and             *)
(* analyze_variables, run on a frame given by its column names, dtypes and *)
(* columns; and of the life of a scheduled job                             *)
(* (src/backend/app/services/task_manager.py, task_executor.py and         *)
(* src/backend/app/core/scheduler.py).                                     *)
(*                                                                         *)
(* Text the code transforms (column names, extensions, encodings) is a     *)
(* sequence of one-character strings, so that lower(), the column-name     *)
(* pattern, substring search and the de-duplication of header names done   *)
(* by pandas are computed, not assumed.                                    *)
(***************************************************************************)
EXTENDS Integers, Sequences, FiniteSets, TLC

(***************************************************************************)
(* Bounds of the model.                                                    *)
(***************************************************************************)
MaxCols == 2
MaxRows == 2

(***************************************************************************)
(* Characters and strings.                                                 *)
(***************************************************************************)
UpperCase == <<"A","B","C","D","E","F","G","H","I","J","K","L","M",
               "N","O","P","Q","R","S","T","U","V","W","X","Y","Z">>
LowerCase == <<"a","b","c","d","e","f","g","h","i","j","k","l","m",
               "n","o","p","q","r","s","t","u","v","w","x","y","z">>
Digits == <<"0","1","2","3","4","5","6","7","8","9">>

Range(s) == { s[i] : i \in DOMAIN s }

UpperLetters == Range(UpperCase)
Letters == Range(UpperCase) \cup Range(LowerCase)
DigitChars == Range(Digits)
LowerOf ==
    [c \in UpperLetters |->
        LowerCase[CHOOSE i \in DOMAIN UpperCase : UpperCase[i] = c]]

IsLetter(c) == c \in Letters
IsDigit(c) == c \in DigitChars

\* str.lower() on one character and on a string
LowerChar(c) == IF c \in UpperLetters THEN LowerOf[c] ELSE c
Lower(s) == [i \in DOMAIN s |-> LowerChar(s[i])]

\* `sub in s` on strings
Contains(sub, s) ==
    \E k \in 0..(Len(s) - Len(sub)) : SubSeq(s, k + 1, k + Len(sub)) = sub

\* ', '.join(names)
RECURSIVE Join(_)
Join(names) ==
    IF names = <<>> THEN <<>>
    ELSE IF Len(names) = 1 THEN names[1]
    ELSE names[1] \o <<",", " ">> \o Join(Tail(names))

\* str(k) for a small natural number
RECURSIVE Str(_)
Str(k) == IF k < 10 THEN <<Digits[k + 1]>>
          ELSE Str(k \div 10) \o <<Digits[(k % 10) + 1]>>

\* Python's None where a string is expected
None == <<"None">>

\* [x for x in s if P(x)], order kept
RECURSIVE SelectIdx(_, _, _)
SelectIdx(s, keep, i) ==
    IF i > Len(s) THEN <<>>
    ELSE (IF i \in keep THEN <<s[i]>> ELSE <<>>) \o SelectIdx(s, keep, i + 1)


(***************************************************************************)
(* Python dictionaries: functions from keys to values.                     *)
(***************************************************************************)
EmptyDict == <<>>
\* d.update(new): the keys of new win
Update(d, new) == new @@ d
\* d.get(k, default)
Get(d, k, default) == IF k \in DOMAIN d THEN d[k] ELSE default

(***************************************************************************)
(* Levels, severities, findings.                                           *)
(***************************************************************************)
Levels == {"basic", "structure", "content", "advanced"}
LevelRank(lv) ==
    CASE lv = "basic" -> 1 [] lv = "structure" -> 2
      [] lv = "content" -> 3 [] lv = "advanced" -> 4

\* ValidationResult(is_valid, severity, code, field, suggestions); the number
\* of suggestions stands for the list of suggestion texts
Finding(valid, sev, code, field, nsugg) ==
    [is_valid |-> valid, severity |-> sev, code |-> code,
     field |-> field, suggestions |-> nsugg]

HasError(results) ==
    \E i \in DOMAIN results : results[i].severity = "error"

\* results.extend(stage_results)
ExtendDropsOld(results, more) == more
Extend(results, more) == results \o more

\* `results = []` on entry of validate_file: a list local to the call
ResultsKeptAcrossCalls(previous) == previous
ResultsOnEntry(previous) == <<>>

\* is_valid = not any(r.severity == ERROR for r in results)
OverallValidStrict(results) ==
    ~ \E i \in DOMAIN results : results[i].severity \in {"error", "warning"}
OverallValid(results) == ~ HasError(results)

\* the `except Exception` clause of validate_file
CatchesOnlyOSError(exc) == exc = "OSError"
TopLevelCatches(exc) == TRUE

(***************************************************************************)
(* Configuration.                                                          *)
(***************************************************************************)
Ext_csv == <<".", "c", "s", "v">>
Ext_parquet == <<".", "p", "a", "r", "q", "u", "e", "t">>

Enc_ascii == <<"a", "s", "c", "i", "i">>
Enc_GB2312 == <<"G", "B", "2", "3", "1", "2">>

Name_DateTime == <<"D", "a", "t", "e", "T", "i", "m", "e">>
Name_tagTime == <<"t", "a", "g", "T", "i", "m", "e">>

MaxFileSizeDefault == 100 * 1024 * 1024
MaxColumnsDefault == 1000
MaxRowsDefault == 1000000
\* r'^[a-zA-Z][a-zA-Z0-9_]*$'
IdentifierPattern == "^[a-zA-Z][a-zA-Z0-9_]*$"

DefaultConfig ==
    [max_file_size |-> MaxFileSizeDefault,
     allowed_extensions |-> <<Ext_csv, Ext_parquet>>,
     allowed_mime_types |-> <<"text/csv", "application/octet-stream">>,
     max_columns |-> MaxColumnsDefault,
     max_rows |-> MaxRowsDefault,
     required_encodings |-> <<<<"u", "t", "f", "-", "8">>, <<"u", "t", "f", "-", "8", "-", "s", "i", "g">>>>,
     datetime_columns |-> <<Name_DateTime, Name_tagTime, <<"t", "i", "m", "e", "s", "t", "a", "m", "p">>, <<"t", "i", "m", "e">>>>,
     required_columns |-> <<>>,
     column_name_pattern |-> IdentifierPattern,
     validate_data_types |-> TRUE,
     check_duplicates |-> TRUE,
     check_null_percentage |-> TRUE,
     \* 0.5 as a fraction
     max_null_percentage |-> [num |-> 1, den |-> 2]]


\* self.config = config or self._get_default_config()
\* (None and the empty dict are falsy)
\* (None and the empty dict are falsy); the argument is
\* [is_none |-> BOOLEAN, dict |-> the mapping passed]
InitConfig(config) ==
    IF config.is_none \/ DOMAIN config.dict = {} THEN DefaultConfig
    ELSE config.dict

\* re.match(r'^[a-zA-Z][a-zA-Z0-9_]*$', name)
ReMatch(pattern, name) ==
    /\ pattern = IdentifierPattern
    /\ Len(name) >= 1
    /\ IsLetter(name[1])
    /\ \A i \in 2..Len(name) : IsLetter(name[i]) \/ IsDigit(name[i]) \/ name[i] = "_"


(***************************************************************************)
(* What pandas / pyarrow compute from a table.  A table is a header (the   *)
(* column names as written in the file) and rows of cells; a cell is NaN   *)
(* (null) or a value.                                                      *)
(***************************************************************************)
NaN == "NaN"

\* df.head(n)
Head_(rows, n) == IF Len(rows) > n THEN SubSeq(rows, 1, n) ELSE rows

\* pd.read_csv gives the k-th repetition (k >= 1) of a header name the
\* suffix ".k" (mangle_dupe_cols), so the columns of a csv frame are unique
MangleDupeCols(header) ==
    [i \in DOMAIN header |->
        LET k == Cardinality({ j \in 1..(i - 1) : header[j] = header[i] })
        IN IF k = 0 THEN header[i] ELSE header[i] \o <<".">> \o Str(k)]

\* columns[columns.duplicated()].tolist()
DuplicatedColumns(columns) ==
    SelectIdx(columns,
              { i \in DOMAIN columns : \E j \in 1..(i - 1) : columns[j] = columns[i] },
              1)

\* df.isnull().sum() for column c
NullCount(rows, c) == Cardinality({ r \in DOMAIN rows : rows[r][c] = NaN })

\* df.duplicated().sum(): rows equal to an earlier row
DuplicatedRows(rows) ==
    Cardinality({ r \in DOMAIN rows : \E q \in 1..(r - 1) : rows[q] = rows[r] })

\* dtype pandas gives a column: all-null -> float64, otherwise object
Dtype(rows, c) ==
    IF rows # <<>> /\ \A r \in DOMAIN rows : rows[r][c] = NaN
    THEN "float64" ELSE "object"

\* series.to_dict() keyed by column label (a later duplicate label wins)
ToDict(columns, values) ==
    [n \in Range(columns) |->
        values[CHOOSE i \in DOMAIN columns :
                  /\ columns[i] = n
                  /\ \A j \in DOMAIN columns : columns[j] = n => j <= i]]

\* rows read by the structure stage (nrows=100) and by the content stage
\* (nrows=10000 / head(10000))
StructureSampleRows == 100
ContentSampleRows == 10000


(***************************************************************************)
(* The stages.  A stage applied to a file f under a configuration cfg      *)
(* yields the (results, metadata) pair it returns, or the exception that   *)
(* leaves it.  self.config[k] raises KeyError when k is not a key.  The     *)
(* field `inside` is the exception raised inside the stage that left it or *)
(* that its `except Exception` caught.                                     *)
(***************************************************************************)
Returns(results, metadata) ==
    [results |-> results, metadata |-> metadata, exc |-> "none", inside |-> "none"]
Raises(exc) ==
    [results |-> <<>>, metadata |-> EmptyDict, exc |-> exc, inside |-> exc]
\* the return after `except Exception` has appended its finding
Catches(results, metadata, exc) ==
    [results |-> results, metadata |-> metadata, exc |-> "none", inside |-> exc]

Has(cfg, k) == k \in DOMAIN cfg
In(x, list) == x \in Range(list)

\* os.path.splitext(file_path)[1].lower()
FileExt(f) == Lower(f.ext)

\* _validate_basic from the MIME check on (file exists, extension allowed)
BasicMimeAndTypeCsvOnly(f, cfg, results, metadata) ==
    Returns(results,
            Update(metadata,
                   "file_type" :> (IF FileExt(f) = Ext_csv THEN "csv" ELSE "unknown")))
BasicMimeAndType(f, cfg, results, metadata) ==
    LET ext == FileExt(f)
        mimeOut ==
            IF f.mime = "ERR"
            THEN \* magic.from_file raised
                 [r |-> <<Finding(TRUE, "warning", "MIME_TYPE_CHECK_FAILED", None, 0)>>,
                  m |-> EmptyDict]
            ELSE IF ~ Has(cfg, "allowed_mime_types")
            THEN \* KeyError inside the try, after metadata['mime_type'] was set
                 [r |-> <<Finding(TRUE, "warning", "MIME_TYPE_CHECK_FAILED", None, 0)>>,
                  m |-> ("mime_type" :> f.mime)]
            ELSE IF ~ In(f.mime, cfg["allowed_mime_types"])
            THEN [r |-> <<Finding(FALSE, "warning", "UNEXPECTED_MIME_TYPE", None, 1)>>,
                  m |-> ("mime_type" :> f.mime)]
            ELSE [r |-> <<>>, m |-> ("mime_type" :> f.mime)]
        ftype == IF ext = Ext_csv THEN "csv"
                 ELSE IF ext = Ext_parquet THEN "parquet"
                 ELSE "unknown"
    IN Returns(results \o mimeOut.r,
               Update(Update(metadata, mimeOut.m), "file_type" :> ftype))

\* _validate_basic after the existence check
BasicExisting(f, cfg) ==
    IF ~ f.exists THEN Raises("OSError")          \* os.path.getsize
    ELSE
    LET ext == FileExt(f)
        metadata == ("file_size" :> f.size) @@ ("file_extension" :> ext)
    IN IF ~ Has(cfg, "max_file_size") THEN Raises("KeyError")
       ELSE
       LET r1 == IF f.size > cfg["max_file_size"]
                 THEN <<Finding(FALSE, "error", "FILE_TOO_LARGE", None, 1)>>
                 ELSE <<>>
       IN IF ~ Has(cfg, "allowed_extensions") THEN Raises("KeyError")
          ELSE IF ~ In(ext, cfg["allowed_extensions"])
          THEN Returns(r1 \o <<Finding(FALSE, "error", "INVALID_FILE_EXTENSION", None, 1)>>,
                       metadata)
          ELSE BasicMimeAndType(f, cfg, r1, metadata)

\* _validate_basic
ValidateBasicNoEarlyReturn(f, cfg) ==
    IF ~ f.exists
    THEN LET rest == BasicExisting(f, cfg)
         IN IF rest.exc # "none" THEN rest
            ELSE Returns(<<Finding(FALSE, "error", "FILE_NOT_FOUND", None, 0)>> \o rest.results,
                         rest.metadata)
    ELSE BasicExisting(f, cfg)
ValidateBasic(f, cfg) ==
    IF ~ f.exists
    THEN Returns(<<Finding(FALSE, "error", "FILE_NOT_FOUND", None, 0)>>, EmptyDict)
    ELSE BasicExisting(f, cfg)


\* _validate_csv_structure, the body of its inner try once the sample is read
CsvSchemaChecks(f, cfg, results, metadata) ==
    LET columns == MangleDupeCols(f.header)
        sample == Head_(f.rows, StructureSampleRows)
        num_columns == Len(columns)
        m1 == Update(metadata, ("num_columns" :> num_columns) @@ ("columns" :> columns))
    IN IF ~ Has(cfg, "max_columns") THEN Raises("KeyError")
       ELSE IF num_columns > 0 /\ ~ Has(cfg, "column_name_pattern") THEN Raises("KeyError")
       ELSE
       LET tooMany == IF num_columns > cfg["max_columns"]
                      THEN <<Finding(FALSE, "error", "TOO_MANY_COLUMNS", None, 0)>>
                      ELSE <<>>
           invalid_columns ==
               SelectIdx(columns,
                         { i \in DOMAIN columns :
                              ~ ReMatch(cfg["column_name_pattern"], columns[i]) },
                         1)
           invalid == IF invalid_columns # <<>>
                      THEN <<Finding(FALSE, "warning", "INVALID_COLUMN_NAMES",
                                     Join(invalid_columns), 1)>>
                      ELSE <<>>
           duplicate_columns == DuplicatedColumns(columns)
           dups == IF duplicate_columns # <<>>
                   THEN <<Finding(FALSE, "error", "DUPLICATE_COLUMNS",
                                  Join(duplicate_columns), 1)>>
                   ELSE <<>>
           dtypes == ToDict(columns, [i \in DOMAIN columns |-> Dtype(sample, i)])
       IN Returns(results \o tooMany \o invalid \o dups,
                  Update(m1, "dtypes" :> dtypes))

\* _validate_csv_structure
ValidateCsvStructure(f, cfg) ==
    LET encoding == f.encoding
        metadata == ("encoding" :> encoding)
                    @@ ("encoding_confidence" :> f.confidence)
    IN IF encoding = None THEN Raises("AttributeError")   \* None.lower()
       ELSE IF ~ Has(cfg, "required_encodings") THEN Raises("KeyError")
       ELSE
       LET accepted == { Lower(cfg["required_encodings"][i]) :
                            i \in DOMAIN cfg["required_encodings"] }
           r1 == IF Lower(encoding) \notin accepted
                 THEN <<Finding(FALSE, "warning", "ENCODING_WARNING", None, 1)>>
                 ELSE <<>>
       IN CASE f.read = "ok" -> CsvSchemaChecks(f, cfg, r1, metadata)
            [] f.read = "EmptyDataError" ->
                 Returns(r1 \o <<Finding(FALSE, "error", "EMPTY_FILE", None, 0)>>, metadata)
            [] f.read = "ParserError" ->
                 Returns(r1 \o <<Finding(FALSE, "error", "CSV_PARSE_ERROR", None, 2)>>, metadata)
            [] OTHER -> Raises(f.read)

\* _validate_parquet_structure
ValidateParquetStructure(f, cfg) ==
    LET failed == <<Finding(FALSE, "error", "PARQUET_READ_ERROR", None, 2)>>
    IN IF ~ f.pq_ok THEN Catches(failed, EmptyDict, "ArrowInvalid")
       ELSE
       LET num_columns == Len(f.header)
           num_rows == Len(f.rows)
           metadata ==
               ("num_columns" :> num_columns) @@ ("num_rows" :> num_rows)
               @@ ("columns" :> f.header)
               @@ ("schema" :> ToDict(f.header, [i \in DOMAIN f.header |-> Dtype(f.rows, i)]))
       IN IF ~ Has(cfg, "max_columns") THEN Catches(failed, metadata, "KeyError")
          ELSE
          LET tooMany == IF num_columns > cfg["max_columns"]
                         THEN <<Finding(FALSE, "error", "TOO_MANY_COLUMNS", None, 0)>>
                         ELSE <<>>
          IN IF ~ Has(cfg, "max_rows") THEN Catches(tooMany \o failed, metadata, "KeyError")
             ELSE
             LET large == IF num_rows > cfg["max_rows"]
                          THEN <<Finding(FALSE, "warning", "LARGE_DATASET", None, 0)>>
                          ELSE <<>>
             IN Returns(tooMany \o large, metadata)

\* _validate_structure
ValidateStructureNoCatch(f, cfg, file_type) ==
    CASE file_type = "csv" -> ValidateCsvStructure(f, cfg)
      [] file_type = "parquet" -> ValidateParquetStructure(f, cfg)
      [] OTHER ->
           Returns(<<Finding(FALSE, "error", "UNSUPPORTED_FILE_TYPE", None, 0)>>,
                   EmptyDict)
ValidateStructure(f, cfg, file_type) ==
    LET inner == CASE file_type = "csv" -> ValidateCsvStructure(f, cfg)
                   [] file_type = "parquet" -> ValidateParquetStructure(f, cfg)
                   [] OTHER ->
                        Returns(<<Finding(FALSE, "error", "UNSUPPORTED_FILE_TYPE", None, 0)>>,
                                EmptyDict)
    IN IF inner.exc # "none"
       THEN Catches(<<Finding(FALSE, "error", "STRUCTURE_VALIDATION_FAILED", None, 2)>>,
                    EmptyDict, inner.exc)
       ELSE inner


\* any(dt_col.lower() in col.lower() for dt_col in self.config['datetime_columns'])
TimeNamed(cfg, col) ==
    \E k \in DOMAIN cfg["datetime_columns"] :
        Contains(Lower(cfg["datetime_columns"][k]), Lower(col))

\* the findings of the time-column loop of _validate_content, columns i..n
RECURSIVE DatetimeFindings(_, _, _, _)
DatetimeFindings(f, cfg, columns, i) ==
    IF i > Len(columns) THEN <<>>
    ELSE
    LET col == columns[i]
        named == TimeNamed(cfg, col)
        \* df[col] is a frame, not a series, when the label is repeated,
        \* and pd.to_datetime of it raises
        unique == \A j \in DOMAIN columns : columns[j] = col => j = i
        here == IF ~ named THEN <<>>
                ELSE IF f.dt_ok /\ unique
                THEN <<Finding(TRUE, "info", "DATETIME_COLUMN_DETECTED", col, 0)>>
                ELSE <<Finding(TRUE, "warning", "DATETIME_PARSE_WARNING", col, 1)>>
    IN here \o DatetimeFindings(f, cfg, columns, i + 1)

\* null_percentages > self.config['max_null_percentage'] for one column with
\* `nulls` nulls in n rows; with len(df) = 0 the ratio is NaN and no
\* comparison with it is true
OverCeilingInclusive(nulls, n, limit) ==
    n > 0 /\ nulls * limit.den >= limit.num * n
OverCeiling(nulls, n, limit) ==
    n > 0 /\ nulls * limit.den > limit.num * n

\* _validate_content once the frame df is read
ContentChecks(f, cfg, columns, rows) ==
    LET failed == <<Finding(FALSE, "error", "CONTENT_VALIDATION_FAILED", None, 2)>>
        n == Len(rows)
        cols == DOMAIN columns
    IN IF ~ Has(cfg, "max_null_percentage") THEN Catches(failed, EmptyDict, "KeyError")
       ELSE
       LET limit == cfg["max_null_percentage"]
           high_null_columns ==
               SelectIdx(columns,
                         { c \in cols : OverCeiling(NullCount(rows, c), n, limit) },
                         1)
           r1 == IF high_null_columns # <<>>
                 THEN <<Finding(TRUE, "warning", "HIGH_NULL_PERCENTAGE",
                                Join(high_null_columns), 2)>>
                 ELSE <<>>
           m1 == "null_percentages" :>
                    ToDict(columns, [c \in cols |-> [num |-> NullCount(rows, c), den |-> n]])
       IN IF cols # {} /\ ~ Has(cfg, "datetime_columns") THEN Catches(r1 \o failed, m1, "KeyError")
          ELSE
          LET r2 == r1 \o DatetimeFindings(f, cfg, columns, 1)
              datetime_columns ==
                  SelectIdx(columns,
                            { c \in cols : TimeNamed(cfg, columns[c]) },
                            1)
              m2 == Update(m1, "datetime_columns" :> datetime_columns)
          IN IF ~ Has(cfg, "check_duplicates") THEN Catches(r2 \o failed, m2, "KeyError")
             ELSE
             LET duplicate_count == DuplicatedRows(rows)
                 r3 == IF cfg["check_duplicates"] /\ duplicate_count > 0
                       THEN r2 \o <<Finding(TRUE, "warning", "DUPLICATE_ROWS", None, 1)>>
                       ELSE r2
                 m3 == IF cfg["check_duplicates"]
                       THEN Update(m2, "duplicate_count" :> duplicate_count)
                       ELSE m2
                 summary ==
                     [total_rows |-> n,
                      total_columns |-> Len(columns),
                      numeric_columns |->
                          Cardinality({ c \in cols : Dtype(rows, c) = "float64" }),
                      text_columns |->
                          Cardinality({ c \in cols : Dtype(rows, c) = "object" }),
                      datetime_columns |-> Len(datetime_columns)]
             IN Returns(r3, Update(m3, "data_summary" :> summary))

\* _validate_content
ValidateContent(f, cfg, file_type) ==
    LET failed == <<Finding(FALSE, "error", "CONTENT_VALIDATION_FAILED", None, 2)>>
    IN CASE file_type = "csv" ->
              \* pd.read_csv(file_path, nrows=10000): default encoding utf-8
              IF ~ f.utf8_ok THEN Catches(failed, EmptyDict, "UnicodeDecodeError")
              ELSE ContentChecks(f, cfg, MangleDupeCols(f.header),
                                 Head_(f.rows, ContentSampleRows))
         [] file_type = "parquet" ->
              IF ~ f.pq_ok THEN Catches(failed, EmptyDict, "ArrowInvalid")
              ELSE ContentChecks(f, cfg, f.header, Head_(f.rows, ContentSampleRows))
         [] OTHER -> Returns(<<>>, EmptyDict)

\* _validate_advanced
ValidateAdvancedWithFinding(f, cfg, file_type) ==
    Returns(<<Finding(TRUE, "info", "ADVANCED_VALIDATION", None, 0)>>,
            "advanced" :> TRUE)
ValidateAdvanced(f, cfg, file_type) == Returns(<<>>, EmptyDict)

\* _create_report
CreateReportNoMetadata(results, metadata, is_valid) ==
    [file_size |-> Get(metadata, "file_size", 0),
     file_type |-> Get(metadata, "file_type", "unknown"),
     encoding |-> Get(metadata, "encoding", None),
     is_valid |-> is_valid,
     validation_results |-> results,
     metadata |-> EmptyDict]
CreateReport(results, metadata, is_valid) ==
    [file_size |-> Get(metadata, "file_size", 0),
     file_type |-> Get(metadata, "file_type", "unknown"),
     encoding |-> Get(metadata, "encoding", None),
     is_valid |-> is_valid,
     validation_results |-> results,
     metadata |-> metadata]


(***************************************************************************)
(* Time-column detection (src/backend/app/services/data_processor.py).     *)
(* A value of a column is None or its str(), a sequence of characters.     *)
(***************************************************************************)
\* settings.TIME_COLUMNS, settings.DATETIME_FORMAT, settings.TAGTIME_FORMAT
TIME_COLUMNS == <<Name_DateTime, Name_tagTime>>
DATETIME_FORMAT == "%Y-%m-%d %H:%M:%S"
TAGTIME_FORMAT == "%Y%m%d%H"

\* df[first_column].head(10)
TimeSampleRows == 10

\* int(s) of a string of digits
DigitValue == [c \in DigitChars |-> (CHOOSE i \in DOMAIN Digits : Digits[i] = c) - 1]
RECURSIVE IntOf(_)
IntOf(s) ==
    IF s = <<>> THEN 0
    ELSE 10 * IntOf(SubSeq(s, 1, Len(s) - 1)) + DigitValue[s[Len(s)]]
\* str.isdigit()
IsDigits(s) == s # <<>> /\ \A i \in DOMAIN s : IsDigit(s[i])

IsLeap(year) == year % 4 = 0 /\ (year % 100 # 0 \/ year % 400 = 0)
DaysInMonth(year, month) ==
    IF month = 2 THEN (IF IsLeap(year) THEN 29 ELSE 28)
    ELSE IF month \in {4, 6, 9, 11} THEN 30
    ELSE 31

\* datetime(year, month, day, hour, minute, second): the exception it raises
DatetimeCtor(year, month, day, hour, minute, second) ==
    IF /\ year \in 1..9999
       /\ month \in 1..12
       /\ day \in 1..DaysInMonth(year, month)
       /\ hour \in 0..23
       /\ minute \in 0..59
       /\ second \in 0..59
    THEN "none"
    ELSE "ValueError"

\* s[i..i+l-1], empty when it leaves s; s[i], "" when there is none
Sub(s, i, l) == IF i >= 1 /\ i + l - 1 <= Len(s) THEN SubSeq(s, i, i + l - 1) ELSE <<>>
CharAt(s, i) == IF i \in DOMAIN s THEN s[i] ELSE ""
\* a directive of the format matches t: digits with a value in lo..hi
Directive(t, lo, hi) == IsDigits(t) /\ IntOf(t) \in lo..hi
\* \s+ matches s[i..i+l-1]
Spaces(s, i, l) == i + l - 1 <= Len(s) /\ \A k \in i..(i + l - 1) : s[k] = " "

\* datetime.strptime(s, '%Y-%m-%d %H:%M:%S'): the exception it raises.  The
\* expression built from the format is
\*   \d\d\d\d - (1[0-2]|0[1-9]|[1-9]) - (3[0-1]|[1-2]\d|0[1-9]|[1-9]| [1-9])
\*   \s+ (2[0-3]|[0-1]\d|\d) : ([0-5]\d|\d) : (6[0-1]|[0-5]\d|\d)
\* it must match all of s, and the fields must make a datetime.
Strptime(s) ==
    IF /\ Directive(Sub(s, 1, 4), 0, 9999)
       /\ CharAt(s, 5) = "-"
       /\ \E lm \in 1..2 :
            /\ Directive(Sub(s, 6, lm), 1, 12)
            /\ CharAt(s, 6 + lm) = "-"
            /\ \E ld \in 1..2 :
                 LET d == Sub(s, 7 + lm, ld)
                     day == IF ld = 2 /\ CharAt(d, 1) = " " THEN <<d[2]>> ELSE d
                 IN /\ Directive(day, 1, 31)
                    /\ \E ws \in 1..Len(s) :
                         /\ Spaces(s, 7 + lm + ld, ws)
                         /\ \E lH \in 1..2 :
                              LET H == 7 + lm + ld + ws
                              IN /\ Directive(Sub(s, H, lH), 0, 23)
                                 /\ CharAt(s, H + lH) = ":"
                                 /\ \E lM \in 1..2 :
                                      LET M == H + lH + 1
                                      IN /\ Directive(Sub(s, M, lM), 0, 59)
                                         /\ CharAt(s, M + lM) = ":"
                                         /\ \E lS \in 1..2 :
                                              LET S == M + lM + 1
                                              IN /\ Directive(Sub(s, S, lS), 0, 61)
                                                 /\ S + lS - 1 = Len(s)
                                                 /\ DatetimeCtor(
                                                        IntOf(Sub(s, 1, 4)),
                                                        IntOf(Sub(s, 6, lm)),
                                                        IntOf(day),
                                                        IntOf(Sub(s, H, lH)),
                                                        IntOf(Sub(s, M, lM)),
                                                        IntOf(Sub(s, S, lS))) = "none"
    THEN "none"
    ELSE "ValueError"

\* the body of the loop of _validate_time_format for one value: "continue",
\* "return False", or the exception raised
CheckTimeValue(value, column_type) ==
    IF value = None THEN "continue"
    ELSE IF column_type = "datetime"
    THEN (IF Strptime(value) = "none" THEN "continue" ELSE Strptime(value))
    ELSE IF column_type = "tagtime"
    THEN IF Len(value) # 10 \/ ~ IsDigits(value) THEN "return False"
         ELSE LET year == IntOf(SubSeq(value, 1, 4))
                  month == IntOf(SubSeq(value, 5, 6))
                  day == IntOf(SubSeq(value, 7, 8))
                  hour == IntOf(SubSeq(value, 9, 10))
                  made == DatetimeCtor(year, month, day, hour, 0, 0)
              IN IF made = "none" THEN "continue" ELSE made
    ELSE "continue"

\* the loop of _validate_time_format from values[i] on
RECURSIVE TimeFormatLoop(_, _, _)
TimeFormatLoop(values, i, column_type) ==
    IF i > Len(values) THEN "return True"
    ELSE LET step == CheckTimeValue(values[i], column_type)
         IN IF step = "continue"
            THEN TimeFormatLoop(values, i + 1, column_type)
            ELSE step

\* except (ValueError, TypeError)
TimeFormatCatchesTypeError(exc) == exc = "TypeError"
TimeFormatCatches(exc) == exc \in {"ValueError", "TypeError"}

\* _validate_time_format
ValidateTimeFormat(values, column_type) ==
    LET out == TimeFormatLoop(values, 1, column_type)
    IN IF out = "return True" THEN [result |-> TRUE, exc |-> "none"]
       ELSE IF out = "return False" \/ TimeFormatCatches(out)
       THEN [result |-> FALSE, exc |-> "none"]
       ELSE [result |-> FALSE, exc |-> out]

\* a polars frame: the column names (distinct) and the columns
Height(df) == IF df.columns = <<>> THEN 0 ELSE Len(df.data[1])
NoTimeInfo == [none |-> TRUE]
NotCalled == [called |-> FALSE]

\* "datetime" if first_column == "DateTime" else "tagtime"
ColumnTypeLowercase(first_column) ==
    IF first_column = Lower(Name_DateTime) THEN "datetime" ELSE "tagtime"
ColumnType(first_column) ==
    IF first_column = Name_DateTime THEN "datetime" ELSE "tagtime"

\* the call of _validate_time_format that detect_time_column makes on df
TimeFormatCallOf(df) ==
    IF Height(df) = 0 \/ ~ In(df.columns[1], TIME_COLUMNS) THEN NotCalled
    ELSE LET first_column == df.columns[1]
             column_type == ColumnType(first_column)
             sample_values == Head_(df.data[1], TimeSampleRows)
             out == ValidateTimeFormat(sample_values, column_type)
         IN [called |-> TRUE, values |-> sample_values, column_type |-> column_type,
             result |-> out.result, exc |-> out.exc]

\* detect_time_column: the dict or None it returns and the exception leaving it
DetectTimeColumn(df) ==
    LET call == TimeFormatCallOf(df)
    IN IF ~ call.called THEN [value |-> NoTimeInfo, exc |-> "none"]
       ELSE IF call.exc # "none" THEN [value |-> NoTimeInfo, exc |-> call.exc]
       ELSE IF call.result
       THEN [value |-> [column_name |-> df.columns[1],
                        column_type |-> call.column_type,
                        format |-> IF call.column_type = "datetime"
                                   THEN DATETIME_FORMAT ELSE TAGTIME_FORMAT,
                        detected |-> TRUE],
             exc |-> "none"]
       ELSE [value |-> NoTimeInfo, exc |-> "none"]

(***************************************************************************)
(* Variable analysis (DataProcessor.analyze_variables).  A frame also has  *)
(* the dtype of each column.                                               *)
(***************************************************************************)
\* [pl.Int64, pl.Float64, pl.Int32, pl.Float32, pl.Int16, pl.Int8]
NumericDtypes == {"Int64", "Float64", "Int32", "Float32", "Int16", "Int8"}

\* Series.null_count() and Series.n_unique() (null counts as one value)
TimeNullCount(column) == Cardinality({ r \in DOMAIN column : column[r] = None })
NUnique(column) == Cardinality(Range(column))

\* unique_count / total_count < 0.5, for total_count > 0
BelowHalfInclusive(unique_count, total_count) == 2 * unique_count <= total_count
BelowHalf(unique_count, total_count) == 2 * unique_count < total_count

\* the body of the loop of analyze_variables for column i: the list the
\* column is appended to with the entry appended, or the exception raised
ClassifyColumn(df, i) ==
    LET column == df.data[i]
        dtype == df.dtypes[i]
        entry(type) == [name |-> df.columns[i], type |-> type, dtype |-> dtype,
                        null_count |-> TimeNullCount(column),
                        unique_count |-> NUnique(column)]
    IN IF dtype \in NumericDtypes
       THEN [exc |-> "none", list |-> "numeric", entry |-> entry("numeric")]
       ELSE IF dtype = "Utf8"
       THEN IF Height(df) = 0
            THEN [exc |-> "ZeroDivisionError", list |-> "none", entry |-> entry("none")]
            ELSE IF BelowHalf(NUnique(column), Height(df))
            THEN [exc |-> "none", list |-> "categorical", entry |-> entry("categorical")]
            ELSE [exc |-> "none", list |-> "text", entry |-> entry("text")]
       ELSE [exc |-> "none", list |-> "text", entry |-> entry("other")]

\* the loop of analyze_variables over the column indices cols[k..], from
\* the lists filled so far
RECURSIVE AnalyzeLoop(_, _, _, _)
AnalyzeLoop(df, cols, k, lists) ==
    IF k > Len(cols) THEN [exc |-> "none", lists |-> lists]
    ELSE LET c == ClassifyColumn(df, cols[k])
         IN IF c.exc # "none" THEN [exc |-> c.exc, lists |-> lists]
            ELSE AnalyzeLoop(df, cols, k + 1,
                             [lists EXCEPT ![c.list] = Append(@, c.entry)])

NoAnalysis == [none |-> TRUE]

\* the indices of the columns analyze_variables loops over: without the
\* column that detect_time_column reported, if it reported one
ColumnsLeftWithoutFirst(df, time_info) ==
    SelectIdx([i \in DOMAIN df.columns |-> i], { i \in DOMAIN df.columns : i # 1 }, 1)
ColumnsLeft(df, time_info) ==
    IF time_info # NoTimeInfo
    THEN SelectIdx([i \in DOMAIN df.columns |-> i],
                   { i \in DOMAIN df.columns : df.columns[i] # time_info.column_name },
                   1)
    ELSE [i \in DOMAIN df.columns |-> i]

\* the end of analyze_variables: the dict it returns after a loop that
\* filled the lists, or the exception that left the loop
AnalyzeResult(time_info, total_variables, out) ==
    IF out.exc # "none"
    THEN [value |-> NoAnalysis, exc |-> out.exc, time_info |-> time_info]
    ELSE [value |->
             [total_variables |-> total_variables,
              numeric_variables |-> out.lists.numeric,
              categorical_variables |-> out.lists.categorical,
              text_variables |-> out.lists.text,
              variable_summary |->
                  [numeric_count |-> Len(out.lists.numeric),
                   categorical_count |-> Len(out.lists.categorical),
                   text_count |-> Len(out.lists.text)]],
          exc |-> "none",
          time_info |-> time_info]

\* analyze_variables from the return of its call of detect_time_column
AnalyzeColumns(df, detected) ==
    IF detected.exc # "none"
    THEN [value |-> NoAnalysis, exc |-> detected.exc, time_info |-> NoTimeInfo]
    ELSE AnalyzeResult(detected.value,
                       Len(ColumnsLeft(df, detected.value)),
                       AnalyzeLoop(df, ColumnsLeft(df, detected.value), 1,
                                   [numeric |-> <<>>, categorical |-> <<>>,
                                    text |-> <<>>]))

\* analyze_variables(df, exclude_time_column): the dict it returns, the
\* exception leaving it, and what its call of detect_time_column returned
AnalyzeVariables(df, exclude_time_column) ==
    AnalyzeColumns(df,
                   IF exclude_time_column /\ Len(df.columns) > 0
                   THEN DetectTimeColumn(df)
                   ELSE [value |-> NoTimeInfo, exc |-> "none"])

(***************************************************************************)
(* Tasks (TaskManager, TaskScheduler, TaskExecutor).  One task is          *)
(* followed; a call of the task manager is one step, a run of the job is   *)
(* three (picked up, marked running, ended).  The database does not fail.  *)
(***************************************************************************)
\* Task.max_retries, default=3
MaxRetriesDefault == 3
\* SCHEDULER_JOB_DEFAULTS["max_instances"]
MaxInstances == 3
\* the job events waiting for the listeners at one time
MaxEvents == 1

NoTask == [none |-> TRUE]
\* f"task_{task_id}"
JobId == "task_1"

\* if task.retry_count >= task.max_retries
RetriesExhaustedStrict(t) == t.retry_count > t.max_retries
RetriesExhausted(t) == t.retry_count >= t.max_retries

\* TaskScheduler.add_task on a running scheduler: add_job without
\* replace_existing refuses an id the job store already has
AddTask(job_ids) ==
    IF JobId \in job_ids
    THEN [exc |-> "ConflictingIdError", jobs |-> job_ids]
    ELSE [exc |-> "none", jobs |-> job_ids \cup {JobId}]

\* TaskManager._schedule_task: the row and the job store after it; a failure
\* is logged and written to the row by TaskManager._update_task_status
ScheduleTask(t, job_ids) ==
    IF t.task_type \notin {"data_processing", "analysis", "visualization"}
    THEN [task |-> [t EXCEPT !.status = "failed", !.error_message = <<"ValueError">>],
          jobs |-> job_ids]
    ELSE IF AddTask(job_ids).exc # "none"
    THEN [task |-> [t EXCEPT !.status = "failed",
                             !.error_message = <<AddTask(job_ids).exc>>],
          jobs |-> job_ids]
    ELSE [task |-> t, jobs |-> AddTask(job_ids).jobs]

\* TaskExecutor._update_task_status: the row after it (a message is a text of
\* one piece, as None is)
UpdateTaskStatus(t, status, error_message) ==
    IF t = NoTask THEN t
    ELSE [t EXCEPT !.status = status,
                   !.error_message = IF error_message # None THEN error_message ELSE @]

(***************************************************************************)
(* The files and configurations validate_file is run on.                   *)
(***************************************************************************)
Exts == {Ext_csv, <<".", "C", "S", "V">>, Ext_parquet, <<".", "t", "x", "t">>}
Name_x == <<"x">>
Name_2 == <<"2">>

Headers(least) == UNION { [1..c -> {Name_x, Name_2, Name_tagTime}] : c \in least..MaxCols }
Tables(c) ==
    IF c = 0 THEN { <<>> }
    ELSE UNION { [1..r -> [1..c -> {NaN, "a"}]] : r \in 0..MaxRows }

File(exists, size, ext, mime, encoding, read, utf8_ok, pq_ok, header, rows, dt_ok) ==
    [exists |-> exists, size |-> size, ext |-> ext, mime |-> mime,
     encoding |-> encoding, confidence |-> IF encoding = None THEN 0 ELSE 99,
     read |-> read, utf8_ok |-> utf8_ok, pq_ok |-> pq_ok,
     header |-> header, rows |-> rows, dt_ok |-> dt_ok]

\* paths at which there is no file
MissingFiles ==
    { File(FALSE, 0, x, "ERR", None, "EmptyDataError", FALSE, FALSE, <<>>, <<>>, TRUE) :
        x \in Exts }

\* a plain one-column, one-row table under every extension, size and MIME
\* type; an empty file has no detectable encoding and is no parquet file
PlainFiles ==
    { File(TRUE, sz, x, m,
           IF sz = 0 THEN None ELSE Enc_ascii,
           IF sz = 0 THEN "EmptyDataError" ELSE "ok",
           TRUE, sz # 0,
           IF sz = 0 THEN <<>> ELSE <<Name_x>>,
           IF sz = 0 THEN <<>> ELSE << <<"a">> >>,
           TRUE) :
        sz \in {0, 10, MaxFileSizeDefault, MaxFileSizeDefault + 1}, x \in Exts, m \in {"text/csv", "text/plain", "application/octet-stream", "ERR"} }

\* delimited text: what chardet detects, and whether the bytes decode as
\* utf-8 (the GB2312 file does not)
Encodings == {<<"U", "T", "F", "-", "8", "-", "S", "I", "G">>, Enc_ascii, Enc_GB2312}
CsvBroken ==
    { File(TRUE, 10, Ext_csv, "text/plain", enc, rd, enc # Enc_GB2312,
           FALSE, <<>>, <<>>, TRUE) :
        enc \in Encodings \cup {None},
        rd \in {"EmptyDataError", "ParserError", "UnicodeDecodeError"} }
CsvTable(enc, h, t, dt) ==
    File(TRUE, 10, Ext_csv, "text/plain", enc, "ok", enc # Enc_GB2312,
         FALSE, h, t, dt)
ParquetTable(h, t, dt) ==
    File(TRUE, 10, Ext_parquet, "application/octet-stream",
         None, "ParserError", FALSE, TRUE, h, t, dt)

\* the header tagTime, x, 2, 2, ... cut to c names; its time-named column
\* is the first, and parsing it can only fail on a value
HeaderOfWidth(c) ==
    [i \in 1..c |-> IF i = 1 THEN Name_tagTime ELSE IF i = 2 THEN Name_x ELSE Name_2]
\* one row without nulls under header h
OneRow(h) == IF h = <<>> THEN <<>> ELSE << [c \in DOMAIN h |-> "a"] >>
ParseOutcomes(t) ==
    IF \E r \in DOMAIN t : t[r][1] # NaN THEN BOOLEAN ELSE {TRUE}

\* every table under one header of each width (encoding: what chardet
\* reports for ASCII bytes), and every header over a one-row table in each
\* encoding
CsvTablesOfWidth(c) ==
    UNION { { CsvTable(Enc_ascii, HeaderOfWidth(c), t, dt) : dt \in ParseOutcomes(t) } :
            t \in Tables(c) }
CsvTables == UNION { CsvTablesOfWidth(c) : c \in 1..MaxCols }
CsvEncoded ==
    { CsvTable(enc, h, OneRow(h), TRUE) : enc \in Encodings, h \in Headers(1) }

\* a one-column, one-row table in each encoding, sniffed as text/csv
CsvSniffed ==
    { [CsvTable(enc, <<Name_x>>, OneRow(<<Name_x>>), TRUE) EXCEPT !.mime = "text/csv"] :
        enc \in Encodings }

\* columnar binary: every table under one header of each width, and every
\* header over a one-row table
ParquetTablesOfWidth(c) ==
    UNION { { ParquetTable(HeaderOfWidth(c), t, dt) : dt \in ParseOutcomes(t) } :
            t \in Tables(c) }
ParquetTables == UNION { ParquetTablesOfWidth(c) : c \in 1..MaxCols }
ParquetHeaders ==
    { ParquetTable(h, OneRow(h), TRUE) : h \in Headers(0) }

Files == MissingFiles \cup PlainFiles \cup CsvBroken \cup CsvTables
         \cup CsvEncoded \cup CsvSniffed \cup ParquetTables \cup ParquetHeaders

\* configurations passed to FileValidator(config)
NoConfig == [is_none |-> TRUE, dict |-> EmptyDict]
CustomConfig ==
    [DefaultConfig EXCEPT !.max_columns = 1, !.max_rows = 1,
                          !.check_duplicates = FALSE,
                          !.allowed_mime_types = <<"text/plain">>]
PartialConfigs ==
    { [max_file_size |-> 9],
      [max_columns |-> 1],
      [k \in (DOMAIN DefaultConfig) \ {"allowed_mime_types", "max_rows", "check_duplicates"}
          |-> DefaultConfig[k]] }
ConfigArgs ==
    { NoConfig, [is_none |-> FALSE, dict |-> EmptyDict],
      [is_none |-> FALSE, dict |-> CustomConfig] }
    \cup { [is_none |-> FALSE, dict |-> d] : d \in PartialConfigs }

\* the (file, config argument) pairs the validator is run on: every
\* configuration on the files that differ in what the Basic stage and the
\* parsers see and on the tables of at most one row, the default
\* configuration on every table
VariedFiles ==
    MissingFiles \cup PlainFiles \cup CsvBroken \cup CsvEncoded \cup CsvSniffed
    \cup ParquetHeaders
    \cup { f \in CsvTables \cup ParquetTables : Len(f.rows) <= 1 }
Inputs ==
    (VariedFiles \X ConfigArgs) \cup ((CsvTables \cup ParquetTables) \X {NoConfig})

\* the pairs on which validate_file is called more than once
RepeatInputs == VariedFiles \X ConfigArgs

(***************************************************************************)
(* The frames detect_time_column is run on and the values                  *)
(* _validate_time_format is called with.                                   *)
(***************************************************************************)
MaxValues == 2
MaxTimeRows == 11

\* a valid tagTime value
Tag_ok == <<"2", "0", "2", "3", "0", "1", "0", "1", "0", "0">>
\* 29 February 2023
Tag_day == <<"2", "0", "2", "3", "0", "2", "2", "9", "0", "0">>
\* nine digits
Tag_short == <<"2", "0", "2", "3", "0", "1", "0", "1", "0">>
\* a valid DateTime value
Dt_ok == <<"2", "0", "2", "3", "-", "0", "1", "-", "0", "1", " ", "0", "0", ":", "0", "0", ":", "0", "0">>
\* a date without a time
Dt_date == <<"2", "0", "2", "3", "-", "0", "1", "-", "0", "1">>

TimeValues ==
    {Tag_ok, Tag_day, Tag_short, Dt_ok, Dt_date,
     \* 29 February of a leap year, last hour
     <<"2", "0", "2", "4", "0", "2", "2", "9", "2", "3">>,
     \* 29 February 2000, a leap year
     <<"2", "0", "0", "0", "0", "2", "2", "9", "0", "0">>,
     \* 29 February 1900, no leap year
     <<"1", "9", "0", "0", "0", "2", "2", "9", "0", "0">>,
     \* hour 24
     <<"2", "0", "2", "3", "0", "1", "0", "1", "2", "4">>,
     \* month 13
     <<"2", "0", "2", "3", "1", "3", "0", "1", "0", "0">>,
     \* year 0
     <<"0", "0", "0", "0", "0", "1", "0", "1", "0", "0">>,
     \* eleven digits
     <<"2", "0", "2", "3", "0", "1", "0", "1", "0", "0", "0">>,
     \* ten characters, not all digits
     <<"2", "0", "2", "3", "0", "1", "0", "1", "a", "b">>,
     \* 29 February of a leap year, last second
     <<"2", "0", "2", "4", "-", "0", "2", "-", "2", "9", " ", "2", "3", ":", "5", "9", ":", "5", "9">>,
     \* one-digit fields, which strptime accepts
     <<"2", "0", "2", "3", "-", "1", "-", "1", " ", "0", ":", "0", ":", "0">>,
     \* two spaces, which strptime accepts
     <<"2", "0", "2", "3", "-", "0", "1", "-", "0", "1", " ", " ", "0", "0", ":", "0", "0", ":", "0", "0">>,
     \* a day padded with a space, which strptime accepts
     <<"2", "0", "2", "3", "-", "0", "1", "-", " ", "1", " ", "0", "0", ":", "0", "0", ":", "0", "0">>,
     \* 30 February
     <<"2", "0", "2", "3", "-", "0", "2", "-", "3", "0", " ", "0", "0", ":", "0", "0", ":", "0", "0">>,
     \* second 60: matched by %S, refused by datetime
     <<"2", "0", "2", "3", "-", "0", "1", "-", "0", "1", " ", "0", "0", ":", "0", "0", ":", "6", "0">>,
     \* minute 60
     <<"2", "0", "2", "3", "-", "0", "1", "-", "0", "1", " ", "0", "0", ":", "6", "0", ":", "0", "0">>,
     \* year 0
     <<"0", "0", "0", "0", "-", "0", "1", "-", "0", "1", " ", "0", "0", ":", "0", "0", ":", "0", "0">>,
     \* T in place of the space
     <<"2", "0", "2", "3", "-", "0", "1", "-", "0", "1", "T", "0", "0", ":", "0", "0", ":", "0", "0">>,
     \* a fraction of a second
     <<"2", "0", "2", "3", "-", "0", "1", "-", "0", "1", " ", "0", "0", ":", "0", "0", ":", "0", "0", ".", "5">>}

\* the sample lists of at most MaxValues values
TimeLists ==
    UNION { [1..n -> TimeValues \cup {None}] : n \in 0..MaxValues }

\* columns of up to MaxTimeRows values: valid values of a type with one
\* other value v at one place
Repeat(v, n) == [i \in 1..n |-> v]
OneOther(good, v) ==
    { [i \in 1..n |-> IF i = k THEN v ELSE good] : n \in 1..MaxTimeRows, k \in 1..MaxTimeRows }
LongColumns ==
    OneOther(Tag_ok, Tag_short) \cup OneOther(Tag_ok, Tag_day) \cup OneOther(Tag_ok, None)
    \cup OneOther(Dt_ok, Dt_date) \cup OneOther(Dt_ok, None)

\* column names: those of TIME_COLUMNS, one in another case, one other
TimeNames == {Name_DateTime, Name_tagTime, Lower(Name_DateTime), Name_x}
TimeHeaders ==
    { h \in UNION { [1..c -> TimeNames] : c \in 1..MaxCols } :
         \A i, j \in DOMAIN h : h[i] = h[j] => i = j }

\* str() of an integer that is not negative
IntText(v) == IsDigits(v) /\ (Len(v) = 1 \/ v[1] # "0")
\* the dtypes a column of these values can have
DtypesOf(col) ==
    {"Utf8"}
    \cup (IF \A i \in DOMAIN col : col[i] = None \/ IntText(col[i])
          THEN {"Int64"} ELSE {})
    \cup (IF \A i \in DOMAIN col : col[i] = None THEN {"Boolean"} ELSE {})
\* the frame with header h and dtypes d whose first column is col; the
\* other columns hold one value of their dtype in every row
Frame(h, col, d) ==
    [columns |-> h,
     data |-> [c \in DOMAIN h |->
                  IF c = 1 THEN col
                  ELSE Repeat(IF d[c] = "Utf8" THEN <<"a">>
                              ELSE IF d[c] = "Int64" THEN <<"1">>
                              ELSE None,
                              Len(col))],
     dtypes |-> d]
NoColumns == [columns |-> <<>>, data |-> <<>>, dtypes |-> <<>>]


(***************************************************************************)
(* validate_file as a state machine: one action per stage call, each       *)
(* including the code of validate_file that follows the call up to the     *)
(* next stage call or the return.                                          *)
(***************************************************************************)
VARIABLES
    file,               \* the file at file_path (never modified)
    config,             \* self.config of the validator
    pc,                 \* "idle", the stage about to be called, or "done"
    level,              \* validation_level of the call in progress
    results,            \* local results of validate_file
    metadata,           \* local metadata of validate_file
    basic_results,      \* locals holding each stage's own findings
    structure_results,
    content_results,
    ran,                \* the stage methods called so far in this call
    inside,             \* for each of them, the exception raised inside it
    outcome,            \* "none", "returned" or "raised"
    report,             \* the report returned by the call
    caught,             \* the exception the handler of validate_file caught
    prev,               \* level, outcome and report of the call before
    df,                 \* the frame detect_time_column is called on
    tpc,                \* "idle", or "done" once detect_time_column has ended
    time_info,          \* what detect_time_column returned
    tf,                 \* the call of _validate_time_format it made
    analysis,           \* the call of analyze_variables on the frame
    task,               \* the row of the task in the database, or NoTask
    jobs,               \* the ids of the jobs in the scheduler's job store
    execs,              \* the running instances of the task's job, by position
    events,             \* the job events not yet handed to the listeners
    last                \* the last call of the task manager and its result

timeVars == <<df, tpc, time_info, tf, analysis>>
taskVars == <<task, jobs, execs, events, last>>
vars == <<file, config, pc, level, results, metadata, basic_results,
          structure_results, content_results, ran, inside, outcome, report,
          caught, prev, df, tpc, time_info, tf, analysis,
          task, jobs, execs, events, last>>

NoReport == [none |-> TRUE]
NoCall == [level |-> "none", outcome |-> "none", report |-> NoReport]

\* df is a frame over one of these headers and first columns, each column
\* of a text dtype, a numeric dtype, or one that is neither
FrameOver(headers, cols) ==
    \E h \in headers, col \in cols :
        \E d \in [DOMAIN h -> {"Utf8", "Int64", "Boolean"}] :
            /\ d[1] \in DtypesOf(col)
            /\ df = Frame(h, col, d)
\* no column, or every header over the columns of at most one value, or
\* every column under the headers of one name
Frames ==
    \/ df = NoColumns
    \/ FrameOver(TimeHeaders, { l \in TimeLists : Len(l) <= 1 })
    \/ FrameOver({ g \in TimeHeaders : Len(g) = 1 }, TimeLists \cup LongColumns)

\* before detect_time_column is called
TimeStart ==
    /\ tpc = "idle"
    /\ time_info = NoTimeInfo
    /\ tf = NotCalled
    /\ analysis = NotCalled

\* a validator built for one of the inputs, before validate_file is called
FileStart(inputs) ==
    /\ \E in \in inputs : file = in[1] /\ config = InitConfig(in[2])
    /\ pc = "idle"
    /\ level = "none"
    /\ results = <<>>
    /\ metadata = EmptyDict
    /\ basic_results = <<>>
    /\ structure_results = <<>>
    /\ content_results = <<>>
    /\ ran = <<>>
    /\ inside = <<>>
    /\ outcome = "none"
    /\ report = NoReport
    /\ caught = "none"
    /\ prev = NoCall

\* no task created, nothing scheduled, nothing running
TaskStart ==
    /\ task = NoTask
    /\ jobs = {}
    /\ execs = [start |-> 0, process |-> 0]
    /\ events = <<>>
    /\ last = [op |-> "none"]

Start(inputs) == FileStart(inputs) /\ df = NoColumns /\ TimeStart /\ TaskStart

Init == Start(Inputs)
InitRepeat == Start(RepeatInputs)
InitDefault == Start(Files \X {NoConfig})


\* the `except Exception` handler of validate_file, or the exception leaving
\* the call
HandleValidFromResults(exc) ==
    IF TopLevelCatches(exc)
    THEN /\ outcome' = "returned"
         /\ caught' = exc
         /\ report' = CreateReport(
                <<Finding(FALSE, "error", "VALIDATION_EXCEPTION", None, 2)>>,
                metadata, OverallValid(results))
    ELSE /\ outcome' = "raised"
         /\ caught' = "none"
         /\ report' = NoReport
Handle(exc) ==
    IF TopLevelCatches(exc)
    THEN /\ outcome' = "returned"
         /\ caught' = exc
         /\ report' = CreateReport(
                <<Finding(FALSE, "error", "VALIDATION_EXCEPTION", None, 2)>>,
                metadata, FALSE)
    ELSE /\ outcome' = "raised"
         /\ caught' = "none"
         /\ report' = NoReport

\* return self._create_report(file_path, results, metadata, is_valid)
ReturnReport(rs, md, is_valid) ==
    /\ outcome' = "returned"
    /\ caught' = "none"
    /\ report' = CreateReport(rs, md, is_valid)

\* entry of validate_file(file_path, lv), lines 90-93
Enter(lv) ==
    /\ pc' = "basic"
    /\ level' = lv
    /\ results' = ResultsOnEntry(results)
    /\ metadata' = EmptyDict
    /\ basic_results' = <<>>
    /\ structure_results' = <<>>
    /\ content_results' = <<>>
    /\ ran' = <<>>
    /\ inside' = <<>>
    /\ outcome' = "none"
    /\ report' = NoReport
    /\ caught' = "none"
    /\ prev' = IF pc = "done"
               THEN [level |-> level, outcome |-> outcome, report |-> report]
               ELSE prev
    /\ UNCHANGED <<file, config>>
    /\ UNCHANGED <<timeVars, taskVars>>

\* the first call of validate_file on a validator
Call(lv) ==
    /\ pc = "idle"
    /\ Enter(lv)

\* a further call of validate_file on the same validator and file, after
\* the call before has ended
CallAgain(lv) ==
    /\ pc = "done"
    /\ Enter(lv)

\* lines 96-103, and 116-130 when the level is BASIC
DoBasic ==
    /\ pc = "basic"
    /\ ran' = Append(ran, "basic")
    /\ LET out == ValidateBasic(file, config)
       IN /\ inside' = Append(inside, out.inside)
          /\ IF out.exc # "none"
             THEN /\ Handle(out.exc)
                  /\ pc' = "done"
                  /\ UNCHANGED <<results, metadata, basic_results>>
             ELSE /\ basic_results' = out.results
                  /\ results' = Extend(results, out.results)
                  /\ metadata' = Update(metadata, out.metadata)
                  /\ IF HasError(out.results)
                     THEN /\ ReturnReport(results', metadata', FALSE)
                          /\ pc' = "done"
                     ELSE IF level \in {"structure", "content", "advanced"}
                     THEN /\ pc' = "structure"
                          /\ UNCHANGED <<outcome, report, caught>>
                     ELSE /\ ReturnReport(results', metadata', OverallValid(results'))
                          /\ pc' = "done"
    /\ UNCHANGED <<file, config, level, structure_results, content_results, prev>>
    /\ UNCHANGED <<timeVars, taskVars>>

\* lines 106-113, and 116-130 when the level is STRUCTURE
DoStructure ==
    /\ pc = "structure"
    /\ ran' = Append(ran, "structure")
    /\ IF "file_type" \notin DOMAIN metadata
       THEN /\ Handle("KeyError")
            /\ pc' = "done"
            /\ inside' = Append(inside, "none")
            /\ UNCHANGED <<results, metadata, structure_results>>
       ELSE
       LET out == ValidateStructure(file, config, metadata["file_type"])
       IN /\ inside' = Append(inside, out.inside)
          /\ IF out.exc # "none"
             THEN /\ Handle(out.exc)
                  /\ pc' = "done"
                  /\ UNCHANGED <<results, metadata, structure_results>>
             ELSE /\ structure_results' = out.results
                  /\ results' = Extend(results, out.results)
                  /\ metadata' = Update(metadata, out.metadata)
                  /\ IF HasError(out.results)
                     THEN /\ ReturnReport(results', metadata', FALSE)
                          /\ pc' = "done"
                     ELSE IF level \in {"content", "advanced"}
                     THEN /\ pc' = "content"
                          /\ UNCHANGED <<outcome, report, caught>>
                     ELSE /\ ReturnReport(results', metadata', OverallValid(results'))
                          /\ pc' = "done"
    /\ UNCHANGED <<file, config, level, basic_results, content_results, prev>>
    /\ UNCHANGED <<timeVars, taskVars>>

\* lines 116-119, and 122-130 when the level is CONTENT
DoContent ==
    /\ pc = "content"
    /\ ran' = Append(ran, "content")
    /\ LET out == ValidateContent(file, config, metadata["file_type"])
       IN /\ inside' = Append(inside, out.inside)
          /\ IF out.exc # "none"
             THEN /\ Handle(out.exc)
                  /\ pc' = "done"
                  /\ UNCHANGED <<results, metadata, content_results>>
             ELSE /\ content_results' = out.results
                  /\ results' = Extend(results, out.results)
                  /\ metadata' = Update(metadata, out.metadata)
                  /\ IF level = "advanced"
                     THEN /\ pc' = "advanced"
                          /\ UNCHANGED <<outcome, report, caught>>
                     ELSE /\ ReturnReport(results', metadata', OverallValid(results'))
                          /\ pc' = "done"
    /\ UNCHANGED <<file, config, level, basic_results, structure_results, prev>>
    /\ UNCHANGED <<timeVars, taskVars>>

\* lines 122-130
DoAdvanced ==
    /\ pc = "advanced"
    /\ ran' = Append(ran, "advanced")
    /\ LET out == ValidateAdvanced(file, config, metadata["file_type"])
       IN /\ inside' = Append(inside, out.inside)
          /\ IF out.exc # "none"
             THEN /\ Handle(out.exc)
                  /\ UNCHANGED <<results, metadata>>
             ELSE /\ results' = Extend(results, out.results)
                  /\ metadata' = Update(metadata, out.metadata)
                  /\ ReturnReport(results', metadata', OverallValid(results'))
    /\ pc' = "done"
    /\ UNCHANGED <<file, config, level, basic_results, structure_results,
                   content_results, prev>>
    /\ UNCHANGED <<timeVars, taskVars>>

Next ==
    \/ \E lv \in Levels : Call(lv)
    \/ DoBasic
    \/ DoStructure
    \/ DoContent
    \/ DoAdvanced

Spec == Init /\ [][Next]_vars

\* the validator built without a config argument
SpecDefault == InitDefault /\ [][Next]_vars

NextRepeat ==
    \/ \E lv \in Levels : Call(lv)
    \/ \E lv \in Levels : CallAgain(lv)
    \/ DoBasic
    \/ DoStructure
    \/ DoContent
    \/ DoAdvanced

SpecRepeat == InitRepeat /\ [][NextRepeat]_vars

(***************************************************************************)
(* detect_time_column as a state machine: one call on each frame.          *)
(***************************************************************************)
fileVars == <<file, config, pc, level, results, metadata, basic_results,
              structure_results, content_results, ran, inside, outcome, report,
              caught, prev>>

\* DataProcessor.detect_time_column(df), with the call of
\* _validate_time_format it makes
Detect ==
    /\ tpc = "idle"
    /\ tpc' = "done"
    /\ tf' = TimeFormatCallOf(df)
    /\ time_info' = DetectTimeColumn(df)
    /\ UNCHANGED <<df, analysis>>
    /\ UNCHANGED <<fileVars, taskVars>>

\* DataProcessor.analyze_variables(df, exclude_time_column), with the call
\* of detect_time_column it makes
Analyze(exclude_time_column) ==
    /\ tpc = "idle"
    /\ tpc' = "analyzed"
    /\ analysis' = [called |-> TRUE, exclude_time_column |-> exclude_time_column,
                    returned |-> AnalyzeVariables(df, exclude_time_column)]
    /\ UNCHANGED <<df, time_info, tf>>
    /\ UNCHANGED <<fileVars, taskVars>>

InitTime ==
    /\ FileStart({<<CHOOSE f \in MissingFiles : f.ext = Ext_csv, NoConfig>>})
    /\ Frames
    /\ TimeStart
    /\ TaskStart

NextTime ==
    \/ Detect
    \/ \E exclude_time_column \in BOOLEAN : Analyze(exclude_time_column)

SpecTime == InitTime /\ [][NextTime]_vars

\* TaskManager.create_task: the id is returned whatever _schedule_task did
CreateTask(task_type) ==
    /\ task = NoTask
    /\ LET out == ScheduleTask([task_type |-> task_type, status |-> "pending",
                                retry_count |-> 0, max_retries |-> MaxRetriesDefault,
                                error_message |-> None],
                               jobs)
       IN /\ task' = out.task
          /\ jobs' = out.jobs
          /\ last' = [op |-> "create_task", result |-> TRUE, before |-> task,
                      after |-> out.task, jobs |-> out.jobs]
    /\ UNCHANGED <<execs, events>>
    /\ UNCHANGED <<fileVars, timeVars>>

\* TaskManager.retry_task
RetryTask ==
    /\ IF task = NoTask \/ RetriesExhausted(task)
       THEN /\ last' = [op |-> "retry_task", result |-> FALSE, before |-> task,
                        after |-> task, jobs |-> jobs]
            /\ UNCHANGED <<task, jobs>>
       ELSE LET out == ScheduleTask([task EXCEPT !.retry_count = @ + 1,
                                                 !.status = "pending",
                                                 !.error_message = None],
                                    jobs)
            IN /\ task' = out.task
               /\ jobs' = out.jobs
               /\ last' = [op |-> "retry_task", result |-> TRUE, before |-> task,
                           after |-> out.task, jobs |-> out.jobs]
    /\ UNCHANGED <<execs, events>>
    /\ UNCHANGED <<fileVars, timeVars>>

\* TaskManager.cancel_task; remove_task swallows the error of a missing job
CancelTask ==
    /\ IF task = NoTask
       THEN /\ last' = [op |-> "cancel_task", result |-> FALSE, before |-> task,
                        after |-> task, jobs |-> jobs]
            /\ UNCHANGED <<task, jobs>>
       ELSE /\ jobs' = jobs \ {JobId}
            /\ task' = [task EXCEPT !.status = "cancelled"]
            /\ last' = [op |-> "cancel_task", result |-> TRUE, before |-> task,
                        after |-> task', jobs |-> jobs']
    /\ UNCHANGED <<execs, events>>
    /\ UNCHANGED <<fileVars, timeVars>>

\* the scheduler picks the job up: a job added without a further run time
\* leaves the job store, and is run unless max_instances of it are running
RunJob ==
    /\ JobId \in jobs
    /\ jobs' = jobs \ {JobId}
    /\ execs' = IF execs.start + execs.process < MaxInstances
                THEN [execs EXCEPT !.start = @ + 1]
                ELSE execs
    /\ UNCHANGED <<task, events, last>>
    /\ UNCHANGED <<fileVars, timeVars>>

\* TaskExecutor.execute_*_task, line 31: the status is set to running
ExecStart ==
    /\ execs.start > 0
    /\ execs' = [start |-> execs.start - 1, process |-> execs.process + 1]
    /\ task' = UpdateTaskStatus(task, "running", None)
    /\ UNCHANGED <<jobs, events, last>>
    /\ UNCHANGED <<fileVars, timeVars>>

\* TaskExecutor.execute_*_task, lines 34-48: the work ends or raises, the
\* status is set, and the scheduler has a job event for its listeners
ExecEnd(ok) ==
    /\ execs.process > 0
    /\ Len(events) < MaxEvents
    /\ execs' = [execs EXCEPT !.process = @ - 1]
    /\ task' = IF ok THEN UpdateTaskStatus(task, "completed", None)
               ELSE UpdateTaskStatus(task, "failed", <<"executor">>)
    /\ events' = Append(events, IF ok THEN "executed" ELSE "error")
    /\ UNCHANGED <<jobs, last>>
    /\ UNCHANGED <<fileVars, timeVars>>

\* the scheduler calls _job_executed or _job_error.  Both are coroutine
\* functions called as plain functions: their body, which writes the status
\* to the row, runs only if the coroutine is awaited
Listen(awaited) ==
    /\ events # <<>>
    /\ events' = Tail(events)
    /\ task' = IF ~ awaited \/ task = NoTask THEN task
               ELSE IF Head(events) = "executed"
               THEN [task EXCEPT !.status = "completed"]
               ELSE [task EXCEPT !.status = "failed", !.error_message = <<"listener">>]
    /\ UNCHANGED <<jobs, execs, last>>
    /\ UNCHANGED <<fileVars, timeVars>>

InitTask ==
    /\ FileStart({<<CHOOSE f \in MissingFiles : f.ext = Ext_csv, NoConfig>>})
    /\ df = NoColumns /\ TimeStart
    /\ TaskStart

NextTask ==
    \/ \E task_type \in {"data_processing", "analysis", "visualization", "report"} :
          CreateTask(task_type)
    \/ RetryTask
    \/ CancelTask
    \/ RunJob
    \/ ExecStart
    \/ \E ok \in BOOLEAN : ExecEnd(ok)
    \/ \E awaited \in BOOLEAN : Listen(awaited)

SpecTask == InitTask /\ [][NextTask]_vars

(***************************************************************************)
(* Properties.                                                             *)
(***************************************************************************)
Returned == pc = "done" /\ outcome = "returned"
ErrorIn(findings) ==
    \E i \in DOMAIN findings : findings[i].severity = "error"
CodesOf(findings) == { findings[i].code : i \in DOMAIN findings }
HasCode(findings, code, sev) ==
    \E i \in DOMAIN findings :
        findings[i].code = code /\ findings[i].severity = sev

\* C1: every returned report has is_valid true exactly when none of its
\* findings has severity ERROR, on the normal, early-return and exception
\* paths alike.
Thm_C1 ==
    Returned => (report.is_valid <=> ~ ErrorIn(report.validation_results))

\* a report that is valid although it carries a warning, after all stages
Wit_C1 ==
    /\ Returned
    /\ level = "advanced"
    /\ report.is_valid
    /\ HasCode(report.validation_results, "ENCODING_WARNING", "warning")

\* C2: validate_file never lets an exception out: no call ends by raising,
\* and a call that has ended has returned a report, after at most the four
\* stage calls.
Thm_C2 ==
    /\ outcome # "raised"
    /\ Len(ran) <= 4
    /\ pc = "done" => outcome = "returned" /\ report # NoReport

\* an exception reached the handler of validate_file and a report came back
Wit_C2 ==
    /\ Returned
    /\ file.exists
    /\ HasCode(report.validation_results, "VALIDATION_EXCEPTION", "error")

\* C3: if the findings of the Basic, Structure or Content stage contain an
\* ERROR, the call ends with is_valid = false and no later stage is called.
Claim_C3 ==
    pc = "done" =>
        /\ ErrorIn(basic_results) =>
              ~ report.is_valid /\ ran = <<"basic">>
        /\ ErrorIn(structure_results) =>
              ~ report.is_valid /\ ran = <<"basic", "structure">>
        /\ ErrorIn(content_results) =>
              ~ report.is_valid /\ ran = <<"basic", "structure", "content">>

\* C4: for a path without a file, at every level, the report is invalid and
\* its only finding is FILE_NOT_FOUND with severity ERROR.
Thm_C4 ==
    (pc = "done" /\ ~ file.exists) =>
        /\ outcome = "returned"
        /\ ~ report.is_valid
        /\ Len(report.validation_results) = 1
        /\ report.validation_results[1].code = "FILE_NOT_FOUND"
        /\ report.validation_results[1].severity = "error"

\* a call at the deepest level on a missing file, under a partial config
Wit_C4 ==
    /\ pc = "done"
    /\ ~ file.exists
    /\ level = "advanced"
    /\ "max_file_size" \notin DOMAIN config

\* C5: for an existing file larger than config max_file_size, at every
\* level, the report has a FILE_TOO_LARGE ERROR, is invalid, and has no
\* finding of the Structure or Content stage.
Claim_C5 ==
    (/\ pc = "done"
     /\ file.exists
     /\ "max_file_size" \in DOMAIN config
     /\ file.size > config["max_file_size"]) =>
        /\ outcome = "returned"
        /\ HasCode(report.validation_results, "FILE_TOO_LARGE", "error")
        /\ ~ report.is_valid
        /\ ran = <<"basic">>

\* the Structure stage has extracted a schema
SchemaExtracted == "structure" \in Range(ran) /\ "columns" \in DOMAIN metadata
RepeatedName(names) ==
    \E i, j \in DOMAIN names : i # j /\ names[i] = names[j]

\* C6: when the Structure stage reads a csv or parquet schema in which two
\* columns have the same name, it emits DUPLICATE_COLUMNS with severity
\* ERROR, the report is invalid and the Content stage does not run.
Claim_C6 ==
    (pc = "done" /\ SchemaExtracted /\ RepeatedName(file.header)) =>
        /\ HasCode(structure_results, "DUPLICATE_COLUMNS", "error")
        /\ ~ report.is_valid
        /\ "content" \notin Range(ran)

\* C7: when the Structure stage extracts a schema (csv or parquet) of which
\* N >= 1 names fail column_name_pattern it emits exactly one
\* INVALID_COLUMN_NAMES finding, a WARNING whose field lists the N names;
\* when N = 0 it emits none.
Claim_C7 ==
    (pc = "done" /\ SchemaExtracted /\ "column_name_pattern" \in DOMAIN config) =>
        LET columns == metadata["columns"]
            offending ==
                SelectIdx(columns,
                          { i \in DOMAIN columns :
                               ~ ReMatch(config["column_name_pattern"], columns[i]) },
                          1)
            emitted == { i \in DOMAIN structure_results :
                            structure_results[i].code = "INVALID_COLUMN_NAMES" }
        IN IF offending = <<>> THEN emitted = {}
           ELSE /\ Cardinality(emitted) = 1
                /\ \A i \in emitted :
                      /\ structure_results[i].severity = "warning"
                      /\ structure_results[i].field = Join(offending)

\* C8: a validator built with only some of the config keys uses the default
\* for the others, so validating an existing file never fails on a missing
\* key.
Claim_C8 ==
    (pc = "done" /\ file.exists) =>
        /\ outcome = "returned"
        /\ ~ HasCode(report.validation_results, "VALIDATION_EXCEPTION", "error")

\* C9: for two calls on the same file and config at levels L1 <= L2, when
\* no finding is an ERROR, the finding codes at L1 are among those at L2.
Thm_C9 ==
    (/\ pc = "done"
     /\ outcome = "returned"
     /\ prev.outcome = "returned"
     /\ ~ ErrorIn(report.validation_results)
     /\ ~ ErrorIn(prev.report.validation_results)) =>
        /\ LevelRank(prev.level) <= LevelRank(level) =>
              CodesOf(prev.report.validation_results)
                 \subseteq CodesOf(report.validation_results)
        /\ LevelRank(level) <= LevelRank(prev.level) =>
              CodesOf(report.validation_results)
                 \subseteq CodesOf(prev.report.validation_results)

\* a BASIC call with a finding, then a CONTENT call that adds more codes
Wit_C9 ==
    /\ pc = "done"
    /\ outcome = "returned"
    /\ prev.outcome = "returned"
    /\ prev.level = "basic"
    /\ level = "content"
    /\ ~ ErrorIn(report.validation_results)
    /\ CodesOf(prev.report.validation_results) # {}
    /\ CodesOf(report.validation_results)
          # CodesOf(prev.report.validation_results)

CodeSeverities(findings) ==
    [i \in DOMAIN findings |-> <<findings[i].code, findings[i].severity>>]

\* the two reports of two successive calls at the same level agree
SameLevelSameReport ==
    (pc = "done" /\ prev.level = level) =>
        /\ outcome = prev.outcome
        /\ outcome = "returned" =>
              /\ report.is_valid = prev.report.is_valid
              /\ CodeSeverities(report.validation_results)
                    = CodeSeverities(prev.report.validation_results)
              /\ report.metadata = prev.report.metadata

\* C10: two calls on the same file with the same config and level return
\* reports equal in is_valid, in the sequence of (code, severity) and in
\* metadata, and no call changes the file or the validator's config.
Thm_C10 ==
    /\ [] SameLevelSameReport
    /\ [][file' = file /\ config' = config]_vars

\* a second call at the same level whose report has several findings
Wit_C10 ==
    /\ pc = "done"
    /\ outcome = "returned"
    /\ prev.outcome = "returned"
    /\ prev.level = level
    /\ Len(report.validation_results) >= 2

\* a step of a call in progress keeps every key of the accumulated metadata
KeysKept ==
    (pc \notin {"idle", "done"}) => DOMAIN metadata \subseteq DOMAIN metadata'

\* C11: within one call of validate_file no step removes a key from the
\* accumulated metadata, and the metadata of the returned report has every
\* key accumulated, on the normal, the early-return and the handler path.
Thm_C11 ==
    /\ [][KeysKept]_vars
    /\ [](Returned => DOMAIN metadata \subseteq DOMAIN report.metadata)

\* a report after all four stages with keys written by Basic, by Structure
\* and by Content
Wit_C11 ==
    /\ Returned
    /\ ran = <<"basic", "structure", "content", "advanced">>
    /\ {"file_size", "columns", "data_summary"} \subseteq DOMAIN report.metadata

\* the Content stage has run and has read the file into a frame
ContentFrameRead ==
    /\ "content" \in Range(ran)
    /\ IF metadata["file_type"] = "csv" THEN file.utf8_ok ELSE file.pq_ok

\* the positions of the columns of the file of which more than the fraction
\* `limit` of the values is null
ColumnsOver(limit) ==
    { c \in DOMAIN file.header :
         /\ file.rows # <<>>
         /\ limit.den * Cardinality({ r \in DOMAIN file.rows : file.rows[r][c] = NaN })
               > limit.num * Len(file.rows) }

\* C12: when the Content stage has read the frame, it emits exactly one
\* HIGH_NULL_PERCENTAGE finding, a WARNING whose field lists exactly the
\* columns with a null ratio strictly above max_null_percentage, if there
\* is such a column and none otherwise; a report whose other findings are
\* no ERROR is valid.
Thm_C12 ==
    (ContentFrameRead /\ "max_null_percentage" \in DOMAIN config) =>
        LET over == ColumnsOver(config["max_null_percentage"])
            names == metadata["columns"]
            emitted == { i \in DOMAIN content_results :
                            content_results[i].code = "HIGH_NULL_PERCENTAGE" }
        IN /\ IF over = {} THEN emitted = {}
              ELSE /\ Cardinality(emitted) = 1
                   /\ \A i \in emitted :
                         /\ content_results[i].severity = "warning"
                         /\ content_results[i].field = Join(SelectIdx(names, over, 1))
           /\ (/\ Returned
               /\ \A i \in DOMAIN report.validation_results :
                     report.validation_results[i].code # "HIGH_NULL_PERCENTAGE"
                        => report.validation_results[i].severity # "error")
                 => report.is_valid

\* two rows and two columns: one column all null and over the ceiling, the
\* other half null and exactly at it; the report names only the first and
\* is valid
Wit_C12 ==
    /\ Returned
    /\ ContentFrameRead
    /\ Len(file.rows) = 2
    /\ Len(file.header) = 2
    /\ ColumnsOver(config["max_null_percentage"]) = {2}
    /\ \E r \in DOMAIN file.rows : file.rows[r][1] = NaN
    /\ HasCode(report.validation_results, "HIGH_NULL_PERCENTAGE", "warning")
    /\ report.is_valid

Detected == tpc = "done" /\ time_info.exc = "none" /\ time_info.value # NoTimeInfo

\* C13: detect_time_column reports a column only for a frame with rows
\* whose first column is named exactly DateTime or tagTime; the column
\* reported is that first column, never one at another index, and its type
\* is 'datetime' for DateTime and 'tagtime' for tagTime.
Thm_C13 ==
    Detected =>
        /\ Height(df) > 0
        /\ df.columns[1] \in {Name_DateTime, Name_tagTime}
        /\ time_info.value.column_name = df.columns[1]
        /\ \A i \in DOMAIN df.columns :
              i # 1 => time_info.value.column_name # df.columns[i]
        /\ time_info.value.column_type =
              (IF df.columns[1] = Name_DateTime THEN "datetime" ELSE "tagtime")
        /\ time_info.value.column_type = "tagtime" <=> df.columns[1] = Name_tagTime

\* a detection of type datetime on a frame whose second column has the
\* other time name
Wit_C13 ==
    /\ Detected
    /\ df.columns = <<Name_DateTime, Name_tagTime>>
    /\ time_info.value.column_type = "datetime"

\* a value is valid for a column type: ten digits that are a year, a
\* month, a day of that month and an hour; or a text that parses under
\* '%Y-%m-%d %H:%M:%S'
ValidTime(column_type, v) ==
    IF column_type = "tagtime"
    THEN /\ Len(v) = 10
         /\ \A i \in 1..10 : v[i] \in DigitChars
         /\ LET year == IntOf(SubSeq(v, 1, 4))
                month == IntOf(SubSeq(v, 5, 6))
                day == IntOf(SubSeq(v, 7, 8))
                hour == IntOf(SubSeq(v, 9, 10))
            IN /\ year >= 1
               /\ month \in 1..12
               /\ day \in 1..DaysInMonth(year, month)
               /\ hour <= 23
    ELSE Strptime(v) = "none"

\* C14: for a frame whose first column has a time name, if one of the
\* first min(100, height) values of that column is not null and not valid
\* for the column type, detect_time_column reports nothing.
Claim_C14 ==
    (/\ tpc = "done"
     /\ Height(df) > 0
     /\ df.columns[1] \in {Name_DateTime, Name_tagTime}) =>
        LET column == df.data[1]
            column_type == IF df.columns[1] = Name_DateTime THEN "datetime" ELSE "tagtime"
            sampled == { i \in DOMAIN column : i <= 100 }
        IN (\E i \in sampled :
               column[i] # None /\ ~ ValidTime(column_type, column[i]))
              => ~ Detected

\* C15: _validate_time_format never raises, and returns true exactly when
\* every value of the sample that is not null is valid for the column type.
Thm_C15 ==
    tf.called =>
        /\ tf.exc = "none"
        /\ tf.result <=>
              \A i \in DOMAIN tf.values :
                  tf.values[i] # None => ValidTime(tf.column_type, tf.values[i])

\* a sample of a null and of ten digits that are no date: the result is
\* false
Wit_C15 ==
    /\ tf.called
    /\ tf.column_type = "tagtime"
    /\ tf.values = <<None, Tag_day>>
    /\ ~ tf.result

\* C16: when the handler of validate_file has caught an exception, the
\* report has exactly one finding, VALIDATION_EXCEPTION with severity ERROR,
\* and is invalid; nothing found before the exception is in it.
Thm_C16 ==
    (pc = "done" /\ caught # "none") =>
        /\ outcome = "returned"
        /\ Len(report.validation_results) = 1
        /\ report.validation_results[1].code = "VALIDATION_EXCEPTION"
        /\ report.validation_results[1].severity = "error"
        /\ ~ report.is_valid

\* a KeyError after the Basic stage had found the file too large: the
\* report does not have that finding
Wit_C16 ==
    /\ pc = "done"
    /\ caught = "KeyError"
    /\ "max_file_size" \in DOMAIN config
    /\ file.size > config["max_file_size"]
    /\ CodesOf(report.validation_results) = {"VALIDATION_EXCEPTION"}

\* the findings of the stage called in the i-th place
StageFindings(i) ==
    IF ran[i] = "structure" THEN structure_results
    ELSE IF ran[i] = "content" THEN content_results
    ELSE <<>>
\* the code under which a stage reports an exception raised inside it
StageCode(i) ==
    IF ran[i] = "content" THEN "CONTENT_VALIDATION_FAILED"
    ELSE IF metadata["file_type"] = "parquet" THEN "PARQUET_READ_ERROR"
    ELSE "STRUCTURE_VALIDATION_FAILED"

\* C17: an exception raised inside the Structure or the Content stage does
\* not reach the handler of validate_file: the findings of the stage have
\* exactly one finding with the stage's failure code, an ERROR with at
\* least one suggestion, and the report has no VALIDATION_EXCEPTION.
Thm_C17 ==
    \A i \in DOMAIN inside :
        (inside[i] # "none" /\ ran[i] \in {"structure", "content"}) =>
            LET found == StageFindings(i)
                failures == { k \in DOMAIN found :
                                 found[k].code \in {"STRUCTURE_VALIDATION_FAILED",
                                                    "PARQUET_READ_ERROR",
                                                    "CONTENT_VALIDATION_FAILED"} }
            IN /\ caught = "none"
               /\ outcome # "raised"
               /\ Cardinality(failures) = 1
               /\ \A k \in failures :
                     /\ found[k].code = StageCode(i)
                     /\ found[k].severity = "error"
                     /\ found[k].suggestions >= 1
               /\ pc = "done" =>
                     ~ HasCode(report.validation_results, "VALIDATION_EXCEPTION", "error")

\* the Content stage met a KeyError after it had gathered a warning, at the
\* deepest level
Wit_C17 ==
    /\ pc = "done"
    /\ level = "advanced"
    /\ Len(inside) >= 3
    /\ inside[3] = "KeyError"
    /\ Len(content_results) >= 2
    /\ HasCode(report.validation_results, "CONTENT_VALIDATION_FAILED", "error")

\* C18: for a .csv file of no content that passes the Basic stage, a call
\* at level STRUCTURE or deeper reports EMPTY_FILE with severity ERROR.
Claim_C18 ==
    (/\ pc = "done"
     /\ file.exists
     /\ file.size = 0
     /\ FileExt(file) = Ext_csv
     /\ ran # <<"basic">>
     /\ ~ ErrorIn(basic_results)) =>
        HasCode(report.validation_results, "EMPTY_FILE", "error")

\* C19: a csv file whose detected encoding is not an accepted one, that the
\* Structure stage has parsed in that encoding, and in which the Basic and
\* the Structure stage found nothing else, gets a valid report at the
\* levels STRUCTURE, CONTENT and ADVANCED.
Claim_C19 ==
    (/\ pc = "done"
     /\ SchemaExtracted
     /\ basic_results = <<>>
     /\ CodesOf(structure_results) = {"ENCODING_WARNING"}) =>
        report.is_valid

StageOrder == <<"basic", "structure", "content", "advanced">>

\* C20: the stages are called in the order Basic, Structure, Content,
\* Advanced; a call in which no stage finds an ERROR ends after exactly the
\* stages up to its level; and the findings of a report that the handler
\* did not build are those of Basic, then Structure, then Content (Advanced
\* has none).
Thm_C20 ==
    /\ Len(ran) <= 4
    /\ ran = SubSeq(StageOrder, 1, Len(ran))
    /\ (/\ pc = "done"
        /\ caught = "none"
        /\ ~ ErrorIn(basic_results)
        /\ ~ ErrorIn(structure_results)
        /\ ~ ErrorIn(content_results)) =>
           ran = SubSeq(StageOrder, 1, LevelRank(level))
    /\ (pc = "done" /\ caught = "none") =>
           report.validation_results
              = basic_results \o structure_results \o content_results

\* a call at the deepest level in which each of the first three stages
\* found something and none an ERROR
Wit_C20 ==
    /\ pc = "done"
    /\ level = "advanced"
    /\ ran = StageOrder
    /\ basic_results # <<>>
    /\ structure_results # <<>>
    /\ content_results # <<>>
    /\ report.is_valid

\* C21: the Basic stage stops at its first ERROR: its findings have at most
\* one ERROR, FILE_TOO_LARGE is followed by no other finding, and
\* INVALID_FILE_EXTENSION comes with no MIME finding.
Claim_C21 ==
    LET codes == CodesOf(basic_results)
        errors == { i \in DOMAIN basic_results : basic_results[i].severity = "error" }
    IN /\ Cardinality(errors) <= 1
       /\ "FILE_TOO_LARGE" \in codes => codes = {"FILE_TOO_LARGE"}
       /\ "INVALID_FILE_EXTENSION" \in codes =>
             codes \cap {"UNEXPECTED_MIME_TYPE", "MIME_TYPE_CHECK_FAILED"} = {}

\* the detected encoding of the file is none of required_encodings
EncodingNotAccepted ==
    /\ file.encoding # None
    /\ "required_encodings" \in DOMAIN config
    /\ \A i \in DOMAIN config["required_encodings"] :
          Lower(config["required_encodings"][i]) # Lower(file.encoding)

\* C22: a warning a stage has produced before an exception is raised inside
\* it is in the report with the stage's ERROR: ENCODING_WARNING when the
\* parse of a csv file with an encoding not accepted raises, and
\* HIGH_NULL_PERCENTAGE when the Content stage raises after its null check.
Claim_C22 ==
    pc = "done" =>
        /\ (/\ Len(inside) >= 2
            /\ metadata["file_type"] = "csv"
            /\ inside[2] = "UnicodeDecodeError"
            /\ EncodingNotAccepted) =>
               /\ HasCode(report.validation_results, "ENCODING_WARNING", "warning")
               /\ ErrorIn(structure_results)
        /\ (/\ Len(inside) >= 3
            /\ inside[3] = "KeyError"
            /\ "max_null_percentage" \in DOMAIN config
            /\ ColumnsOver(config["max_null_percentage"]) # {}) =>
               /\ HasCode(report.validation_results, "HIGH_NULL_PERCENTAGE", "warning")
               /\ HasCode(report.validation_results, "CONTENT_VALIDATION_FAILED", "error")


\* the names in a list of analyze_variables, and the columns it analysed
NamesIn(list) == { list[k].name : k \in DOMAIN list }
Analysed ==
    analysis.called /\ analysis.returned.exc = "none"
AnalysedNames ==
    NamesIn(analysis.returned.value.numeric_variables)
    \cup NamesIn(analysis.returned.value.categorical_variables)
    \cup NamesIn(analysis.returned.value.text_variables)

\* C23: in the result of analyze_variables a Utf8 column is categorical
\* exactly when its unique values are fewer than half the rows and text
\* otherwise (exactly half is text); every analysed column is in exactly one
\* of the three lists, so the three counts sum to total_variables
Thm_C23 ==
    Analysed =>
        LET v == analysis.returned.value
            numeric == NamesIn(v.numeric_variables)
            categorical == NamesIn(v.categorical_variables)
            text == NamesIn(v.text_variables)
        IN /\ v.variable_summary.numeric_count + v.variable_summary.categorical_count
                 + v.variable_summary.text_count = v.total_variables
           /\ v.variable_summary.numeric_count = Len(v.numeric_variables)
           /\ v.variable_summary.categorical_count = Len(v.categorical_variables)
           /\ v.variable_summary.text_count = Len(v.text_variables)
           /\ Cardinality(AnalysedNames) = v.total_variables
           /\ numeric \cap categorical = {}
           /\ numeric \cap text = {}
           /\ categorical \cap text = {}
           /\ \A i \in DOMAIN df.columns :
                 (df.dtypes[i] = "Utf8" /\ df.columns[i] \in AnalysedNames) =>
                    /\ df.columns[i] \in categorical
                          <=> 2 * Cardinality(Range(df.data[i])) < Len(df.data[i])
                    /\ df.columns[i] \in text
                          <=> 2 * Cardinality(Range(df.data[i])) >= Len(df.data[i])
Wit_C23 ==
    /\ Analysed
    /\ \E i \in DOMAIN df.columns :
          /\ df.dtypes[i] = "Utf8"
          /\ Len(df.data[i]) > 0
          /\ 2 * Cardinality(Range(df.data[i])) = Len(df.data[i])
          /\ df.columns[i] \in NamesIn(analysis.returned.value.text_variables)
    /\ analysis.returned.value.total_variables = Len(df.columns)


\* C24: classifying the columns is best-effort: a column whose
\* classification fails is skipped and the others are still classified, so
\* analyze_variables returns a result in which every column of a numeric
\* dtype that was not excluded as the time column is listed as numeric
Claim_C24 ==
    analysis.called =>
        /\ analysis.returned.exc = "none"
        /\ \A i \in DOMAIN df.columns :
              (df.dtypes[i] = "Int64" /\ (i # 1 \/ analysis.returned.time_info = NoTimeInfo)) =>
                  df.columns[i] \in NamesIn(analysis.returned.value.numeric_variables)

\* the first column of the frame has a time name and, among the values
\* detect_time_column samples, one that is not valid for its type
FirstColumnInvalidTime ==
    /\ Height(df) > 0
    /\ df.columns[1] \in {Name_DateTime, Name_tagTime}
    /\ \E i \in DOMAIN df.data[1] :
          /\ i <= TimeSampleRows
          /\ df.data[1][i] # None
          /\ ~ ValidTime(IF df.columns[1] = Name_DateTime THEN "datetime" ELSE "tagtime",
                         df.data[1][i])

\* C26: analyze_variables(exclude_time_column=True) on a frame with rows
\* does not raise because of the time detection; when the first column has
\* a time name and an invalid sampled value nothing is detected; the first
\* column is left out of the classified variables exactly when a time column
\* was detected, and otherwise it is classified by its dtype like any other
Thm_C26 ==
    (analysis.called /\ analysis.exclude_time_column /\ Height(df) > 0) =>
        /\ analysis.returned.exc = "none"
        /\ FirstColumnInvalidTime => analysis.returned.time_info = NoTimeInfo
        /\ df.columns[1] \notin AnalysedNames <=> analysis.returned.time_info # NoTimeInfo
        /\ analysis.returned.time_info = NoTimeInfo =>
              /\ analysis.returned.value.total_variables = Len(df.columns)
              /\ df.columns[1] \in NamesIn(analysis.returned.value.numeric_variables)
                    <=> df.dtypes[1] \in NumericDtypes
              /\ df.columns[1] \in NamesIn(analysis.returned.value.categorical_variables)
                    <=> /\ df.dtypes[1] = "Utf8"
                        /\ 2 * Cardinality(Range(df.data[1])) < Len(df.data[1])
        /\ analysis.returned.time_info # NoTimeInfo =>
              analysis.returned.value.total_variables = Len(df.columns) - 1
Wit_C26 ==
    /\ analysis.called
    /\ analysis.exclude_time_column
    /\ FirstColumnInvalidTime
    /\ df.columns[1] = Name_tagTime
    /\ df.columns[1] \in NamesIn(analysis.returned.value.text_variables)
    /\ Len(df.columns) = 2


\* C25: under the default configuration no finding has the code
\* UNSUPPORTED_FILE_TYPE; once the Basic stage has ended without an ERROR,
\* metadata has file_type and it is 'csv' or 'parquet'; and no stage call
\* fails on a missing file_type key
Thm_C25 ==
    /\ "UNSUPPORTED_FILE_TYPE" \notin
          CodesOf(results) \cup CodesOf(structure_results) \cup CodesOf(content_results)
    /\ Returned => "UNSUPPORTED_FILE_TYPE" \notin CodesOf(report.validation_results)
    /\ caught # "KeyError"
    /\ (/\ Len(ran) >= 1
        /\ pc # "idle"
        /\ inside[1] = "none"
        /\ caught = "none"
        /\ ~ ErrorIn(basic_results)) =>
           /\ "file_type" \in DOMAIN metadata
           /\ metadata["file_type"] \in {"csv", "parquet"}
           /\ metadata["file_type"] = "csv" <=> Lower(file.ext) = Ext_csv
\* a parquet file with an unexpected MIME type that went through all stages
Wit_C25 ==
    /\ Returned
    /\ level = "advanced"
    /\ ran = StageOrder
    /\ file.ext = Ext_parquet
    /\ "UNEXPECTED_MIME_TYPE" \in CodesOf(basic_results)
    /\ metadata["file_type"] = "parquet"
    /\ report.file_type = "parquet"


\* of two successive calls on the same file and validator, one at CONTENT
\* and one at ADVANCED, the outcomes and the reports agree
AdvancedSameAsContent ==
    (pc = "done" /\ {prev.level, level} = {"content", "advanced"}) =>
        /\ outcome = prev.outcome
        /\ outcome = "returned" =>
              /\ report.is_valid = prev.report.is_valid
              /\ report.validation_results = prev.report.validation_results
              /\ report.metadata = prev.report.metadata

\* C27: the Advanced stage does nothing: the step that calls it leaves the
\* accumulated findings and metadata as they were, and the report of a call
\* at ADVANCED has the is_valid, the findings and the metadata of the report
\* of a call at CONTENT on the same file and config
Thm_C27 ==
    /\ [] AdvancedSameAsContent
    /\ [][pc = "advanced" => (results' = results /\ metadata' = metadata)]_vars
\* a call at ADVANCED that ran all four stages after a call at CONTENT
Wit_C27 ==
    /\ Returned
    /\ prev.level = "content"
    /\ prev.outcome = "returned"
    /\ level = "advanced"
    /\ ran = StageOrder
    /\ Len(report.validation_results) >= 2
    /\ "data_summary" \in DOMAIN report.metadata


\* C28: every task has retry_count <= max_retries; retry_task on a task
\* whose retry_count has reached max_retries returns False and leaves
\* retry_count, status and error_message as they were; a retry_task that
\* returns True has increased retry_count by exactly 1
Thm_C28 ==
    /\ task # NoTask => task.retry_count <= task.max_retries
    /\ (last.op = "retry_task" /\ last.before # NoTask) =>
          /\ last.before.retry_count >= last.before.max_retries =>
                /\ ~ last.result
                /\ last.after.retry_count = last.before.retry_count
                /\ last.after.status = last.before.status
                /\ last.after.error_message = last.before.error_message
          /\ last.result => last.after.retry_count = last.before.retry_count + 1
\* a retry refused after the last allowed one, on a task an executor failed
Wit_C28 ==
    /\ last.op = "retry_task"
    /\ ~ last.result
    /\ last.before # NoTask
    /\ last.before.retry_count = MaxRetriesDefault
    /\ last.before.status = "failed"
    /\ last.before.error_message = <<"executor">>
    /\ task = last.before

\* C29: after cancel_task has returned True, and until the task manager is
\* called again for the task, the status of the task is 'cancelled',
\* whatever the executor and the job listeners do
Claim_C29 ==
    (last.op = "cancel_task" /\ last.result) => task.status = "cancelled"

\* C30: when retry_task returns True, or create_task returns the id, the
\* task is 'pending' and the scheduler has exactly one job for it
Claim_C30 ==
    (last.op \in {"create_task", "retry_task"} /\ last.result) =>
        /\ last.after.status = "pending"
        /\ last.jobs = {JobId}

=============================================================================
